---------------------------- MODULE Spec2Model ----------------------------
(***************************************************************************)
(* Logic-Circuit-Simulator: the recompute rules of the edge-triggered      *)
(* random input, the demultiplexer, the half-adder and the passthrough     *)
(* (components/InputRandom.ts, components/Demux.ts), the removal of a      *)
(* passthrough, and the load / save protocol of FileManager.               *)
(*                                                                         *)
(* Each component family has its own specification over the same           *)
(* variables: SpecRandom, SpecComb, SpecPass, SpecLoad.  The variables of  *)
(* the other families keep their initial values there.                     *)
(***************************************************************************)
EXTENDS Integers, Sequences, FiniteSets, TLC

\* ------------------------------------------------------------------------
\* Logic value domain (utils: LogicValue = boolean | Unknown | HighImpedance)
\* ------------------------------------------------------------------------
LTrue == "1"
LFalse == "0"
Unknown == "?"
HighImpedance == "Z"
LogicValue == {LTrue, LFalse, Unknown, HighImpedance}

isUnknown(v) == v = Unknown
isHighImpedance(v) == v = HighImpedance

\* the value undefined / null of the host language
Undef == "undefined"

VARIABLES
    \* ---- InputRandom ----
    trigger,      \* _trigger: "rising" | "falling"
    prob1,        \* _prob1, in percent
    lastClock,    \* _lastClock
    clockIn,      \* inputs[INPUT.Clock].value
    value,        \* the component's value (this.value)
    outNode,      \* outputs[OUTPUT.Out].value
    rndHist,      \* history of the last recompute call (not program state)
    \* ---- Demux / HalfAdder ----
    comp,         \* which combinational component is live
    dmx,          \* the Demux: variant, inputs, flag, outputs
    ha,           \* the HalfAdder: inputs a, b and outputs
    pt,           \* the Passthrough as a component: numBits, inputs I, outputs O
    fresh,        \* whether the outputs were recomputed since the last change
    \* ---- Passthrough removal ----
    numBits,      \* Passthrough.numBits
    pwires,       \* the wires of the editor around the passthrough
    alive,        \* whether the passthrough still exists
    pHist,        \* the wires when destroy was called (not program state)
    \* ---- FileManager ----
    file,         \* the content handed to doLoadFromJson
    graph,        \* allComponents: the live component arrays
    wireMng,      \* wireMng: the wire list and the wire being added
    liveNodes,    \* the node registry behind findNode
    isLoadingState,
    pc,           \* position inside doLoadFromJson
    parsedContents,
    result,       \* how the last doLoadFromJson call ended
    lHist,        \* the graph when the running / last load was called
    \* ---- FileManager: the serialization of the workspace ----
    workspace,    \* the object handed to stringifySmart
    jsonStr,      \* the document it writes
    \* ---- Recalculation scheduler ----
    circuit,      \* which circuit is live
    nodeValue,    \* the value of each node
    pending,      \* the pending set, in the order the nodes became dirty
    iterations,   \* iterations of the running / last settle()
    settleStatus, \* "settling", "settled" or "unstable"
    lastStep      \* the write of the last iteration (not program state)

rndVars == <<trigger, prob1, lastClock, clockIn, value, outNode, rndHist>>
combVars == <<comp, dmx, ha, pt, fresh>>
passVars == <<numBits, pwires, alive, pHist>>
loadVars == <<file, graph, wireMng, liveNodes, isLoadingState, pc,
              parsedContents, result, lHist>>
saveVars == <<workspace, jsonStr>>
schedVars == <<circuit, nodeValue, pending, iterations, settleStatus, lastStep>>
vars == <<rndVars, combVars, passVars, loadVars, saveVars, schedVars>>

\* ------------------------------------------------------------------------
\* InputRandom (components/InputRandom.ts)
\* ------------------------------------------------------------------------
EdgeTrigger == {"rising", "falling"}

\* Flipflop.isClockTrigger: the configured edge between two defined values
isClockTrigger(trig, prevClock, clock) ==
    \/ trig = "rising" /\ prevClock = LFalse /\ clock = LTrue
    \/ trig = "falling" /\ prevClock = LTrue /\ clock = LFalse

\* Math.random(), in percent: 0 <= r < 100
RandomDraws == {0, 49, 50, 99}
\* _prob1 is clamped to [0, 1]
Prob1Values == {0, 50, 100}

\* doRecalcValue without the update of _lastClock
InputRandom_doRecalcValue_keepLast(last, clock, trig, cur, p, r) ==
    IF ~isClockTrigger(trig, last, clock)
    THEN [lastClock |-> last, ret |-> cur, drew |-> FALSE]
    ELSE [lastClock |-> last, ret |-> (IF r < p THEN LTrue ELSE LFalse), drew |-> TRUE]

\* doRecalcValue returning false instead of the current value
InputRandom_doRecalcValue_reset(last, clock, trig, cur, p, r) ==
    IF ~isClockTrigger(trig, last, clock)
    THEN [lastClock |-> clock, ret |-> LFalse, drew |-> FALSE]
    ELSE [lastClock |-> clock, ret |-> (IF r < p THEN LTrue ELSE LFalse), drew |-> TRUE]

\* doRecalcValue storing the clock input only on a call that does not fire
InputRandom_doRecalcValue_staleOnFire(last, clock, trig, cur, p, r) ==
    IF ~isClockTrigger(trig, last, clock)
    THEN [lastClock |-> clock, ret |-> cur, drew |-> FALSE]
    ELSE [lastClock |-> last, ret |-> (IF r < p THEN LTrue ELSE LFalse), drew |-> TRUE]

\* InputRandom.doRecalcValue: the new _lastClock, the returned value, and
\* whether Math.random() was drawn
InputRandom_doRecalcValue(last, clock, trig, cur, p, r) ==
    LET prevClock == last
    IN  IF ~isClockTrigger(trig, prevClock, clock)
        THEN [lastClock |-> clock, ret |-> cur, drew |-> FALSE]
        ELSE [lastClock |-> clock, ret |-> (IF r < p THEN LTrue ELSE LFalse), drew |-> TRUE]

InputRandomDefaults == [prob1 |-> 50, trigger |-> "rising"]
\* savedData.prob1 as stored in a record, in percent (the constructor clamps)
SavedProb1 == Prob1Values \cup {-50, 150}

Min(a, b) == IF a < b THEN a ELSE b
Max(a, b) == IF a > b THEN a ELSE b

\* InputRandom.toJSON: the fields written (a field that is undefined is left
\* out of the record); name, showProb and the base fields are not modelled
InputRandom_toJSON(p, trig) ==
    [k \in {"type"}
           \cup (IF p # InputRandomDefaults.prob1 THEN {"prob1"} ELSE {})
           \cup (IF trig # InputRandomDefaults.trigger THEN {"trigger"} ELSE {}) |->
        CASE k = "type" -> "random"
          [] k = "prob1" -> p
          [] OTHER -> trig]

\* the saved records a component is built from, and null
SavedData ==
    {[null |-> TRUE, repr |-> <<>>]} \cup
    UNION { { [null |-> FALSE,
               repr |-> [k \in {"type"} \cup keys |->
                            CASE k = "type" -> "random"
                              [] k = "prob1" -> p
                              [] OTHER -> trig]] :
                p \in SavedProb1, trig \in EdgeTrigger } :
            keys \in SUBSET {"prob1", "trigger"} }

\* the constructor with _lastClock starting as false
NewInputRandom_lastClockFalse(savedData) ==
    [prob1 |-> IF ~savedData.null /\ "prob1" \in DOMAIN savedData.repr
               THEN Max(0, Min(100, savedData.repr.prob1))
               ELSE InputRandomDefaults.prob1,
     trigger |-> IF ~savedData.null /\ "trigger" \in DOMAIN savedData.repr
                 THEN savedData.repr.trigger
                 ELSE InputRandomDefaults.trigger,
     lastClock |-> LFalse,
     value |-> LFalse]

\* InputRandom constructor: the field initialisers, then the fields read
\* from savedData when it is not null; the value starts as false
NewInputRandom(savedData) ==
    [prob1 |-> IF ~savedData.null /\ "prob1" \in DOMAIN savedData.repr
               THEN Max(0, Min(100, savedData.repr.prob1))
               ELSE InputRandomDefaults.prob1,
     trigger |-> IF ~savedData.null /\ "trigger" \in DOMAIN savedData.repr
                 THEN savedData.repr.trigger
                 ELSE InputRandomDefaults.trigger,
     lastClock |-> Unknown,
     value |-> LFalse]

\* the history kept for the properties, at construction
NoCalls(loaded) ==
    [calls |-> 0, drew |-> FALSE, prevDrew |-> FALSE, prevIn |-> Unknown,
     curIn |-> Unknown, outBefore |-> LFalse, loaded |-> loaded]

RandomInit ==
    \E savedData \in SavedData :
        LET c == NewInputRandom(savedData)
        IN  /\ trigger = c.trigger
            /\ prob1 = c.prob1
            /\ lastClock = c.lastClock
            /\ clockIn = Unknown
            /\ value = c.value
            /\ outNode = c.value
            /\ rndHist = NoCalls(~savedData.null)

\* the circuit is saved and loaded again: the component is rebuilt from the
\* record its toJSON wrote
RandomReload ==
    LET c == NewInputRandom([null |-> FALSE, repr |-> InputRandom_toJSON(prob1, trigger)])
    IN  /\ trigger' = c.trigger
        /\ prob1' = c.prob1
        /\ lastClock' = c.lastClock
        /\ clockIn' = Unknown
        /\ value' = c.value
        /\ outNode' = c.value
        /\ rndHist' = NoCalls(TRUE)
        /\ UNCHANGED <<combVars, passVars, loadVars, saveVars, schedVars>>

\* the wire or the user driving the clock input writes a value to it
SetClock ==
    /\ \E v \in LogicValue : v # clockIn /\ clockIn' = v
    /\ UNCHANGED <<trigger, prob1, lastClock, value, outNode, rndHist>>
    /\ UNCHANGED <<combVars, passVars, loadVars, saveVars, schedVars>>

\* one recompute of the component: doRecalcValue, then propagateValue
RandomRecalc ==
    \E r \in RandomDraws :
        LET res == InputRandom_doRecalcValue(lastClock, clockIn, trigger, value, prob1, r)
        IN  /\ lastClock' = res.lastClock
            /\ value' = res.ret
            /\ outNode' = res.ret
            /\ rndHist' = [calls |-> IF rndHist.calls < 2 THEN rndHist.calls + 1 ELSE 2,
                           drew |-> res.drew,
                           prevDrew |-> rndHist.drew,
                           prevIn |-> rndHist.curIn,
                           curIn |-> clockIn,
                           outBefore |-> outNode,
                           loaded |-> rndHist.loaded]
            /\ UNCHANGED <<trigger, prob1, clockIn>>
            /\ UNCHANGED <<combVars, passVars, loadVars, saveVars, schedVars>>


RandomNext == SetClock \/ RandomRecalc \/ RandomReload

\* ------------------------------------------------------------------------
\* Demux (components/Demux.ts)
\* ------------------------------------------------------------------------
\* the widest data input whose value vectors are all explored
MaxFrom == 4

\* Demux1To2 .. Demux8To16: the node counts declared by defineDemux and the
\* constructor arguments (numFrom, numSel, numTo)
DemuxVariants ==
    { [numInputs |-> 2, numOutputs |-> 2, numFrom |-> 1, numSel |-> 1, numTo |-> 2],
      [numInputs |-> 3, numOutputs |-> 4, numFrom |-> 1, numSel |-> 2, numTo |-> 4],
      [numInputs |-> 4, numOutputs |-> 8, numFrom |-> 1, numSel |-> 3, numTo |-> 8],
      [numInputs |-> 3, numOutputs |-> 4, numFrom |-> 2, numSel |-> 1, numTo |-> 4],
      [numInputs |-> 4, numOutputs |-> 8, numFrom |-> 2, numSel |-> 2, numTo |-> 8],
      [numInputs |-> 5, numOutputs |-> 8, numFrom |-> 4, numSel |-> 1, numTo |-> 8],
      [numInputs |-> 9, numOutputs |-> 16, numFrom |-> 8, numSel |-> 1, numTo |-> 16] }

FixedArrayFill(v, n) == [k \in 1..n |-> v]

\* the constructor with numTo / numSel groups
NewDemux_groupsBySel(variant, I, S, highZ) ==
    [numInputs |-> variant.numInputs, numOutputs |-> variant.numOutputs,
     numFrom |-> variant.numFrom, numSel |-> variant.numSel, numTo |-> variant.numTo,
     numGroups |-> variant.numTo \div variant.numSel,
     I |-> I, S |-> S, disconnectedAsHighZ |-> highZ,
     out |-> FixedArrayFill(LFalse, variant.numTo)]

\* Demux constructor: numGroups = numTo / numFrom (numFrom divides numTo in
\* every variant), the value starts all false
NewDemux(variant, I, S, highZ) ==
    [numInputs |-> variant.numInputs, numOutputs |-> variant.numOutputs,
     numFrom |-> variant.numFrom, numSel |-> variant.numSel, numTo |-> variant.numTo,
     numGroups |-> variant.numTo \div variant.numFrom,
     I |-> I, S |-> S, disconnectedAsHighZ |-> highZ,
     out |-> FixedArrayFill(LFalse, variant.numTo)]

RECURSIVE BinaryValue(_, _)
\* the number whose bit k (least significant first) is values[k]
BinaryValue(values, k) ==
    IF k > Len(values) THEN 0
    ELSE (IF values[k] = LTrue THEN 1 ELSE 0) + 2 * BinaryValue(values, k + 1)

\* drawutils displayValuesFromArray(values, false)[1]: Unknown as soon as
\* one bit is not a boolean, else the number read least significant bit first
\* (a record here: unknown tells the two apart, n is the number)
displayValuesFromArray(values) ==
    IF \E k \in 1..Len(values) : isUnknown(values[k]) \/ isHighImpedance(values[k])
    THEN [unknown |-> TRUE, n |-> 0]
    ELSE [unknown |-> FALSE, n |-> BinaryValue(values, 1)]

\* doRecalcValue marking only the first group Unknown on an unknown selector
Demux_doRecalcValue_onlyActive(d) ==
    LET sels == d.S
        disconnected == IF d.disconnectedAsHighZ THEN HighImpedance ELSE LFalse
    IN  IF \E k \in 1..Len(sels) : isUnknown(sels[k]) \/ isHighImpedance(sels[k])
        THEN [k \in 1..d.numTo |-> IF (k - 1) \div d.numFrom = 0 THEN Unknown ELSE disconnected]
        ELSE [k \in 1..(d.numGroups * d.numFrom) |->
                IF (k - 1) \div d.numFrom = BinaryValue(sels, 1)
                THEN d.I[((k - 1) % d.numFrom) + 1]
                ELSE disconnected]

\* doRecalcValue ignoring the disconnectedAsHighZ flag
Demux_doRecalcValue_noHighZ(d) ==
    LET sel == displayValuesFromArray(d.S)
    IN  IF sel.unknown
        THEN FixedArrayFill(Unknown, d.numTo)
        ELSE [k \in 1..(d.numGroups * d.numFrom) |->
                IF (k - 1) \div d.numFrom = sel.n
                THEN d.I[((k - 1) % d.numFrom) + 1]
                ELSE LFalse]

\* doRecalcValue whose loop over the groups stops one group early
Demux_doRecalcValue_lastGroupMissing(d) ==
    LET sel == displayValuesFromArray(d.S)
        disconnected == IF d.disconnectedAsHighZ THEN HighImpedance ELSE LFalse
    IN  IF sel.unknown
        THEN FixedArrayFill(Unknown, d.numTo)
        ELSE [k \in 1..((d.numGroups - 1) * d.numFrom) |->
                IF (k - 1) \div d.numFrom = sel.n
                THEN d.I[((k - 1) % d.numFrom) + 1]
                ELSE disconnected]

\* doRecalcValue holding the previous outputs while the selector is unknown
Demux_doRecalcValue_latched(d) ==
    LET sel == displayValuesFromArray(d.S)
        disconnected == IF d.disconnectedAsHighZ THEN HighImpedance ELSE LFalse
    IN  IF sel.unknown
        THEN d.out
        ELSE [k \in 1..(d.numGroups * d.numFrom) |->
                IF (k - 1) \div d.numFrom = sel.n
                THEN d.I[((k - 1) % d.numFrom) + 1]
                ELSE disconnected]

\* Demux.doRecalcValue: group g of the result holds the data inputs when
\* g = sel and numFrom copies of `disconnected` otherwise
Demux_doRecalcValue(d) ==
    LET sels == d.S
        sel == displayValuesFromArray(sels)
        disconnected == IF d.disconnectedAsHighZ THEN HighImpedance ELSE LFalse
    IN  IF sel.unknown
        THEN FixedArrayFill(Unknown, d.numTo)
        ELSE [k \in 1..(d.numGroups * d.numFrom) |->
                LET g == (k - 1) \div d.numFrom
                    i == (k - 1) % d.numFrom
                IN  IF g = sel.n THEN d.I[i + 1] ELSE disconnected]

\* Demux.propagateValue: outputs[i].value = newValues[i] for each returned value
Demux_propagateValue(out, newValues) ==
    [k \in 1..Len(out) |-> IF k <= Len(newValues) THEN newValues[k] ELSE out[k]]

\* the loop of Demux.propagateValue: the indices of this.outputs it writes,
\* in order
WrittenIndices(newValues) == [i \in 1..Len(newValues) |-> i - 1]

ValueVectors(n) == [1..n -> LogicValue]
\* for the inputs wider than MaxFrom: the vectors that alternate two values
WideVectors(n) == {[k \in 1..n |-> IF k % 2 = 1 THEN a ELSE b] : a, b \in LogicValue}
\* the data input vectors explored for a width
InputVectors(n) == IF n <= MaxFrom THEN ValueVectors(n) ELSE WideVectors(n)

\* the component that is not live keeps these
IdleDemux == NewDemux([numInputs |-> 2, numOutputs |-> 2, numFrom |-> 1, numSel |-> 1, numTo |-> 2],
                      <<Unknown>>, <<Unknown>>, FALSE)
IdleHalfAdder == [a |-> Unknown, b |-> Unknown, out |-> <<LFalse, LFalse>>]
IdlePassthrough == [numBits |-> 1, I |-> <<Unknown>>, O |-> <<LFalse>>]

\* ------------------------------------------------------------------------
\* HalfAdder (components/Demux.ts, second part)
\* ------------------------------------------------------------------------
\* +a of a boolean
Plus(v) == IF v = LTrue THEN 1 ELSE 0

\* doRecalcValue with the sum computed as `or` when both inputs are true
HalfAdder_doRecalcValue_or(a, b) ==
    IF isUnknown(a) \/ isUnknown(b) \/ isHighImpedance(a) \/ isHighImpedance(b)
    THEN <<Unknown, Unknown>>
    ELSE IF Plus(a) + Plus(b) = 0 THEN <<LFalse, LFalse>>
    ELSE IF Plus(a) + Plus(b) = 1 THEN <<LTrue, LFalse>>
    ELSE <<LTrue, LTrue>>

\* HalfAdder.doRecalcValue: <<sum, carry>>
HalfAdder_doRecalcValue(a, b) ==
    IF isUnknown(a) \/ isUnknown(b) \/ isHighImpedance(a) \/ isHighImpedance(b)
    THEN <<Unknown, Unknown>>
    ELSE LET sum == Plus(a) + Plus(b)
         IN  CASE sum = 0 -> <<LFalse, LFalse>>
               [] sum = 1 -> <<LTrue, LFalse>>
               [] sum = 2 -> <<LFalse, LTrue>>
               [] OTHER -> <<LFalse, LFalse>>

\* ------------------------------------------------------------------------
\* Passthrough as a component (components/InputRandom.ts, second part)
\* ------------------------------------------------------------------------
\* the widest passthrough whose inputs are rewritten bit by bit
PassSetBits == 4
\* the widths PassthroughDef.validateParams accepts
PassthroughWidths == {1, 2, 4, 8, 16}

\* ComponentBase.inputValues(nodes): the value of each node of the group
inputValues(nodes) == [i \in 1..Len(nodes) |-> nodes[i]]
\* ComponentBase.outputValues(nodes, values): values[i] is written to node i
outputValues(nodes, values) == [i \in 1..Len(nodes) |-> values[i]]

\* doRecalcValue giving Unknown on every bit as soon as one input is Unknown
Passthrough_doRecalcValue_poison(I) ==
    IF \E i \in 1..Len(I) : isUnknown(I[i]) THEN FixedArrayFill(Unknown, Len(I))
    ELSE inputValues(I)

\* Passthrough.doRecalcValue
Passthrough_doRecalcValue(I) == inputValues(I)
\* Passthrough.propagateValue
Passthrough_propagateValue(O, newValue) == outputValues(O, newValue)

\* Passthrough constructor: the value starts all false
NewPassthrough(n, I) == [numBits |-> n, I |-> I, O |-> FixedArrayFill(LFalse, n)]

CombInit ==
    /\ comp \in {"demux", "halfadder", "passthrough"}
    /\ fresh = FALSE
    /\ IF comp = "demux"
       THEN \E variant \in DemuxVariants :
               \E I \in InputVectors(variant.numFrom), S \in ValueVectors(variant.numSel),
                  highZ \in BOOLEAN :
                   dmx = NewDemux(variant, I, S, highZ)
       ELSE dmx = IdleDemux
    /\ IF comp = "halfadder"
       THEN \E a \in LogicValue, b \in LogicValue :
               ha = [a |-> a, b |-> b, out |-> <<LFalse, LFalse>>]
       ELSE ha = IdleHalfAdder
    /\ IF comp = "passthrough"
       THEN \E n \in PassthroughWidths : \E I \in InputVectors(n) : pt = NewPassthrough(n, I)
       ELSE pt = IdlePassthrough

\* one recompute of the Demux: doRecalcValue, then propagateValue
DemuxRecalc ==
    /\ comp = "demux"
    /\ dmx' = [dmx EXCEPT !.out = Demux_propagateValue(dmx.out, Demux_doRecalcValue(dmx))]
    /\ fresh' = TRUE
    /\ UNCHANGED <<comp, ha, pt>>
    /\ UNCHANGED <<rndVars, passVars, loadVars, saveVars, schedVars>>

\* doSetDisconnectedAsHighZ: store the flag and ask for a recompute
DemuxSetDisconnectedAsHighZ ==
    /\ comp = "demux"
    /\ dmx' = [dmx EXCEPT !.disconnectedAsHighZ = ~dmx.disconnectedAsHighZ]
    /\ fresh' = FALSE
    /\ UNCHANGED <<comp, ha, pt>>
    /\ UNCHANGED <<rndVars, passVars, loadVars, saveVars, schedVars>>

\* a wire writes a new value to selector input S[i]
DemuxSetSelector ==
    /\ comp = "demux"
    /\ \E i \in 1..dmx.numSel, v \in LogicValue :
         v # dmx.S[i] /\ dmx' = [dmx EXCEPT !.S[i] = v]
    /\ fresh' = FALSE
    /\ UNCHANGED <<comp, ha, pt>>
    /\ UNCHANGED <<rndVars, passVars, loadVars, saveVars, schedVars>>

\* one recompute of the HalfAdder: doRecalcValue, then propagateValue
HalfAdderRecalc ==
    /\ comp = "halfadder"
    /\ ha' = [ha EXCEPT !.out = HalfAdder_doRecalcValue(ha.a, ha.b)]
    /\ fresh' = TRUE
    /\ UNCHANGED <<comp, dmx, pt>>
    /\ UNCHANGED <<rndVars, passVars, loadVars, saveVars, schedVars>>

\* a wire writes a new value to input A or B
HalfAdderSetInput ==
    /\ comp = "halfadder"
    /\ \E v \in LogicValue :
         \/ v # ha.a /\ ha' = [ha EXCEPT !.a = v]
         \/ v # ha.b /\ ha' = [ha EXCEPT !.b = v]
    /\ fresh' = FALSE
    /\ UNCHANGED <<comp, dmx, pt>>
    /\ UNCHANGED <<rndVars, passVars, loadVars, saveVars, schedVars>>

\* one recompute of the Passthrough: doRecalcValue, then propagateValue
PassthroughRecalc ==
    /\ comp = "passthrough"
    /\ pt' = [pt EXCEPT !.O = Passthrough_propagateValue(pt.O, Passthrough_doRecalcValue(pt.I))]
    /\ fresh' = TRUE
    /\ UNCHANGED <<comp, dmx, ha>>
    /\ UNCHANGED <<rndVars, passVars, loadVars, saveVars, schedVars>>

\* the wires write a new value to input I[i]
PassthroughSetInput ==
    /\ comp = "passthrough"
    /\ pt.numBits <= PassSetBits
    /\ \E i \in 1..pt.numBits, v \in LogicValue :
         v # pt.I[i] /\ pt' = [pt EXCEPT !.I[i] = v]
    /\ fresh' = FALSE
    /\ UNCHANGED <<comp, dmx, ha>>
    /\ UNCHANGED <<rndVars, passVars, loadVars, saveVars, schedVars>>

CombNext ==
    \/ DemuxRecalc \/ DemuxSetDisconnectedAsHighZ \/ DemuxSetSelector
    \/ HalfAdderRecalc \/ HalfAdderSetInput
    \/ PassthroughRecalc \/ PassthroughSetInput

\* ------------------------------------------------------------------------
\* Passthrough removal (components/InputRandom.ts, second part)
\* ------------------------------------------------------------------------
\* the number of output nodes and of input nodes of other components
NumExt == 2
\* the widths explored, among the valid ones (1, 2, 4, 8, 16)
PassWidths == {1, 2}
\* Wire.style: undefined or one of the wire styles
WireStyle == {Undef, "straight"}

NodeI(i) == <<"I", i>>        \* this.inputs.I[i]
NodeO(i) == <<"O", i>>        \* this.outputs.O[i]
ExtOut == {<<"X", k>> : k \in 1..NumExt}
ExtIn == {<<"D", k>> : k \in 1..NumExt}
OwnNodes(n) == {NodeI(i) : i \in 1..n} \cup {NodeO(i) : i \in 1..n}

\* wireMgr.addNode(from) followed by wireMgr.addNode(to): the wire is made
\* unless `to` already has an incoming wire or is `from` itself
\* (the result: the new wire list and whether a wire was returned)
addNodePair(wires, from, to) ==
    IF from = to \/ \E w \in wires : w.endNode = to
    THEN [wires |-> wires, made |-> FALSE]
    ELSE [wires |-> wires \cup {[startNode |-> from, endNode |-> to, style |-> Undef]},
          made |-> TRUE]

\* wire.doSetStyle(style) on the wire that ends in `to`
doSetStyle(wires, to, style) ==
    {IF w.endNode = to THEN [w EXCEPT !.style = style] ELSE w : w \in wires}

\* ComponentBase.destroy: the nodes are destroyed and every wire attached
\* to one of them is removed
superDestroy(wires, n) ==
    {w \in wires : w.startNode \notin OwnNodes(n) /\ w.endNode \notin OwnNodes(n)}

\* the first loop of destroy: for each bit with an incoming wire, the start
\* node of that wire and the <<endNode, style>> of each outgoing wire
savedWireEnds(wires, n) ==
    {[nodeOut |-> pair[1].startNode, nodeIn |-> pair[2].endNode, style |-> pair[2].style] :
        pair \in {pr \in wires \X wires :
                    \E i \in 1..n : pr[1].endNode = NodeI(i) /\ pr[2].startNode = NodeO(i)}}

RECURSIVE addBack(_, _)
\* the second loop of destroy: add each saved wire back and restore its style
addBack(wires, ends) ==
    IF ends = {} THEN wires
    ELSE LET e == CHOOSE x \in ends : TRUE
             r == addNodePair(wires, e.nodeOut, e.nodeIn)
             next == IF ~r.made THEN r.wires
                     ELSE IF e.style # Undef THEN doSetStyle(r.wires, e.nodeIn, e.style)
                     ELSE r.wires
         IN  addBack(next, ends \ {e})

RECURSIVE addBack_noStyle(_, _)
addBack_noStyle(wires, ends) ==
    IF ends = {} THEN wires
    ELSE LET e == CHOOSE x \in ends : TRUE
         IN  addBack_noStyle(addNodePair(wires, e.nodeOut, e.nodeIn).wires, ends \ {e})

\* destroy without the restoring of the wire styles
Passthrough_destroy_noStyle(wires, n) ==
    addBack_noStyle(superDestroy(wires, n), savedWireEnds(wires, n))

\* Passthrough.destroy: the wire list after the call
Passthrough_destroy(wires, n) ==
    LET ends == savedWireEnds(wires, n)
        afterSuper == superDestroy(wires, n)
    IN  IF ends # {} THEN addBack(afterSuper, ends) ELSE afterSuper

PassInit ==
    /\ numBits \in PassWidths
    /\ pwires = {}
    /\ alive = TRUE
    /\ pHist = {}

\* the user draws a wire from an output node to a free input node and may
\* give it a style
AddWire ==
    /\ alive
    /\ \E from \in ExtOut \cup {NodeO(i) : i \in 1..numBits},
          to \in ExtIn \cup {NodeI(i) : i \in 1..numBits},
          style \in WireStyle :
            LET r == addNodePair(pwires, from, to)
            IN  /\ r.made
                /\ pwires' = IF style # Undef THEN doSetStyle(r.wires, to, style) ELSE r.wires
    /\ UNCHANGED <<numBits, alive, pHist>>
    /\ UNCHANGED <<rndVars, combVars, loadVars, saveVars, schedVars>>

\* the user deletes the passthrough
PassthroughDestroy ==
    /\ alive
    /\ pwires' = Passthrough_destroy(pwires, numBits)
    /\ alive' = FALSE
    /\ pHist' = pwires
    /\ UNCHANGED numBits
    /\ UNCHANGED <<rndVars, combVars, loadVars, saveVars, schedVars>>

PassNext == AddWire \/ PassthroughDestroy

\* ------------------------------------------------------------------------
\* FileManager: documents and the live graph
\* ------------------------------------------------------------------------
\* the component arrays of allComponents, in the order of the load
AllComponents == <<"in", "out", "displays", "displaysA", "displaysB", "clocks", "gates">>
CompFields == {AllComponents[k] : k \in 1..Len(AllComponents)}

\* a node id that is undefined or null
NoId == 0
isNullOrUndefined(x) == x = NoId

\* JSON values: an array, null, or an object with fields
JArray(items) == [kind |-> "array", items |-> items]
JNull == [kind |-> "null", items |-> <<>>]
JObject(fields) == [kind |-> "object", fields |-> fields]
JNullValue == [kind |-> "null", fields |-> <<>>]

\* the key under which a component keeps its resolved node
NodeKey(f) == IF f \in {"in", "clocks", "gates"} THEN "output" ELSE "input"

\* a component constructor called with a descriptor: the component keeps
\* the descriptor's id and parameter and owns the node with that id
NewComponent(f, d) ==
    [k \in {"id", "p", NodeKey(f)} |->
        IF k = "id" THEN d.id ELSE IF k = "p" THEN d.p ELSE [id |-> d.id, value |-> LFalse]]

\* the keys the replacer of getJSON_Workspace filters out
DenyList ==
    {"output", "input", "nodeSet", "nodeReset", "nodeClock", "nodeD", "nodeT", "nodeJ",
     "nodeK", "nodeQ", "nodeNotQ", "andGate_NotQ", "andGate_Q", "ff_D", "orGate",
     "gateSet", "gateReset", "asyncLatch", "master", "slave", "srLatchSync",
     "startNode", "endNode"}

\* the replacer applied to the keys of an object
Replacer(obj) == [k \in (DOMAIN obj) \ DenyList |-> obj[k]]

\* Wire.toJSON: the pair of the ids of its two nodes
Wire_toJSON(w) == <<w.startNode, w.endNode>>

\* getJSON_Workspace writing every field, the empty arrays included
getJSON_Workspace_allFields(g, wires) ==
    JObject([f \in CompFields \cup {"wires"} |->
               IF f = "wires"
               THEN JArray([i \in 1..Len(wires) |-> Wire_toJSON(wires[i])])
               ELSE JArray([i \in 1..Len(g[f]) |-> Replacer(g[f][i])])])

\* getJSON_Workspace followed by JSON.parse of the text: one field per
\* non-empty array, each element through toJSON and the replacer
getJSON_Workspace(g, wires) ==
    LET present == {f \in CompFields : Len(g[f]) > 0}
                   \cup (IF Len(wires) > 0 THEN {"wires"} ELSE {})
    IN  JObject([f \in present |->
                   IF f = "wires"
                   THEN JArray([i \in 1..Len(wires) |-> Wire_toJSON(wires[i])])
                   ELSE JArray([i \in 1..Len(g[f]) |-> Replacer(g[f][i])])])

EmptyGraph == [f \in CompFields |-> <<>>]
EmptyWireMng == [wires |-> <<>>, pending |-> NoId]

\* wireMng.addNode(node): the first call starts a wire at the node, the
\* second one ends it there unless the node is the start node itself or
\* already has an incoming wire
wireMng_addNode(wm, node) ==
    IF wm.pending = NoId
    THEN [wm EXCEPT !.pending = node]
    ELSE IF wm.pending = node \/ \E i \in 1..Len(wm.wires) : wm.wires[i].endNode = node
    THEN [wm EXCEPT !.pending = NoId]
    ELSE [wires |-> Append(wm.wires, [startNode |-> wm.pending, endNode |-> node]),
          pending |-> NoId]

\* findNode(id): the live node with that id, or undefined
findNode(nodes, id) == IF id \in nodes THEN id ELSE NoId

\* ---- the documents explored ----
\* the largest parameter value of a descriptor
MaxParam == 1

NoPlace == <<"none", 0>>
\* where the component with id 1 and the one with id 2 go, and their parameter
Places1 == {NoPlace} \cup (CompFields \X (0..MaxParam))
Places2 == {NoPlace} \cup (CompFields \X {0})

DescrSeq(f, pl1, pl2) ==
    (IF pl1[1] = f THEN <<[id |-> 1, p |-> pl1[2]]>> ELSE <<>>)
    \o (IF pl2[1] = f THEN <<[id |-> 2, p |-> pl2[2]]>> ELSE <<>>)

\* the `wires` fields explored: complete pairs, pairs with a missing id
WireFields ==
    { <<>>,
      << <<1, 2>> >>,
      << <<1, 2>>, <<2, 1>> >>,
      << <<1, NoId>>, <<1, 2>> >>,
      << <<1, 2>>, <<2, NoId>> >>,
      << <<NoId, 2>>, <<2, 1>> >> }

\* a document with the two components placed, the given wires field when
\* it is not empty, and one more field that is an empty array or null
MakeDoc(pl1, pl2, wf, extra) ==
    LET used == {f \in CompFields : DescrSeq(f, pl1, pl2) # <<>>}
                \cup (IF wf # <<>> THEN {"wires"} ELSE {})
        more == IF extra[1] \in used \/ extra[1] = "none" THEN {} ELSE {extra[1]}
    IN  JObject([f \in used \cup more |->
                   IF f \in more THEN (IF extra[2] = "null" THEN JNull ELSE JArray(<<>>))
                   ELSE IF f = "wires" THEN JArray(wf)
                   ELSE JArray(DescrSeq(f, pl1, pl2))])

Extras == (CompFields \cup {"wires"}) \X {"empty", "null"}

Documents ==
    {MakeDoc(pl1, pl2, wf, <<"none", "empty">>) :
        pl1 \in Places1, pl2 \in Places2, wf \in WireFields}
    \cup {MakeDoc(pl1, NoPlace, <<>>, extra) : pl1 \in Places1, extra \in Extras}

\* what doLoadFromJson is called with: a text that is not JSON, the text of
\* a JSON value, or (for a few documents) the value itself
Contents ==
    {[isString |-> TRUE, parses |-> FALSE, value |-> JNullValue]}
    \cup {[isString |-> TRUE, parses |-> TRUE, value |-> v] : v \in Documents \cup {JNullValue}}
    \cup {[isString |-> FALSE, parses |-> TRUE, value |-> MakeDoc(pl1, NoPlace, <<>>, <<"none", "empty">>)] :
            pl1 \in Places1}

\* a malformed document: no JSON text, not an object, or a field that is
\* no array
Malformed(c) ==
    \/ c.isString /\ ~c.parses
    \/ c.value.kind # "object"
    \/ \E f \in DOMAIN c.value.fields : c.value.fields[f].kind # "array"

\* a graph built by hand in the editor: an input wired to an output, a clock
SeedGraph ==
    [f \in CompFields |->
        IF f = "in" THEN <<NewComponent("in", [id |-> 8, p |-> 1])>>
        ELSE IF f = "out" THEN <<NewComponent("out", [id |-> 9, p |-> 0])>>
        ELSE IF f = "clocks" THEN <<NewComponent("clocks", [id |-> 7, p |-> 1])>>
        ELSE <<>>]
SeedWires == << [startNode |-> 8, endNode |-> 9] >>
SeedNodes == {7, 8, 9}

\* ------------------------------------------------------------------------
\* FileManager.doLoadFromJson
\* ------------------------------------------------------------------------
\* the clear skipping the gates array
ClearGraph_keepGates(g) == [f \in CompFields |-> IF f = "gates" THEN g[f] ELSE <<>>]

\* for (const elems of allComponents) elems.splice(0, elems.length)
ClearGraph(g) == [f \in CompFields |-> <<>>]

\* one `if (f in parsedContents) for (...) array.push(new Kind(parsedContents.f[i]))`
\* block: the arrays and the registry after it, and whether it threw
\* (f in null, or .length of null, is a TypeError)
LoadArrayField(f, pcnt, g, nodes) ==
    IF pcnt.kind # "object" THEN [threw |-> TRUE, graph |-> g, nodes |-> nodes]
    ELSE IF f \notin DOMAIN pcnt.fields THEN [threw |-> FALSE, graph |-> g, nodes |-> nodes]
    ELSE IF pcnt.fields[f].kind # "array" THEN [threw |-> TRUE, graph |-> g, nodes |-> nodes]
    ELSE LET items == pcnt.fields[f].items
         IN  [threw |-> FALSE,
              graph |-> [g EXCEPT ![f] =
                            g[f] \o [i \in 1..Len(items) |-> NewComponent(f, items[i])]],
              nodes |-> nodes \cup {items[i].id : i \in 1..Len(items)}]

\* new Clock(undefined): a clock with default parameters and a new node
DefaultClock(i) == NewComponent("clocks", [id |-> 20 + i, p |-> 0])

\* the `clocks` block: the i-th clock is built from parsedContents.displaysB[i];
\* reading [i] of a missing or null displaysB is a TypeError, and past the end
\* of displaysB the constructor gets undefined (onUndefined: it throws, or it
\* builds a default clock)
LoadClocksField(pcnt, g, nodes, onUndefined) ==
    IF pcnt.kind # "object" THEN [threw |-> TRUE, graph |-> g, nodes |-> nodes]
    ELSE IF "clocks" \notin DOMAIN pcnt.fields THEN [threw |-> FALSE, graph |-> g, nodes |-> nodes]
    ELSE IF pcnt.fields["clocks"].kind # "array" THEN [threw |-> TRUE, graph |-> g, nodes |-> nodes]
    ELSE LET n == Len(pcnt.fields["clocks"].items)
             hasB == "displaysB" \in DOMAIN pcnt.fields /\ pcnt.fields["displaysB"].kind = "array"
             dB == IF hasB THEN pcnt.fields["displaysB"].items ELSE <<>>
             built == [i \in 1..n |->
                         IF i <= Len(dB) THEN NewComponent("clocks", dB[i]) ELSE DefaultClock(i)]
             upTo == IF ~hasB THEN 0
                     ELSE IF n > Len(dB) /\ onUndefined = "throw" THEN Len(dB)
                     ELSE n
         IN  [threw |-> upTo < n,
              graph |-> [g EXCEPT !["clocks"] = g["clocks"] \o SubSeq(built, 1, upTo)],
              nodes |-> nodes \cup {built[i].id : i \in 1..upTo}]

RECURSIVE LoadWiresLoop_break(_, _, _, _)
\* the wires loop leaving at the first entry it cannot resolve
LoadWiresLoop_break(entries, i, wm, nodes) ==
    IF i > Len(entries) THEN wm
    ELSE LET parsedVals == entries[i]
             node1 == findNode(nodes, parsedVals[1])
             node2 == findNode(nodes, parsedVals[2])
         IN  IF isNullOrUndefined(parsedVals[2]) THEN wm
             ELSE IF node1 = NoId \/ node2 = NoId THEN wm
             ELSE LoadWiresLoop_break(entries, i + 1,
                                      wireMng_addNode(wireMng_addNode(wm, node1), node2), nodes)

RECURSIVE LoadWiresLoop(_, _, _, _)
\* the loop of the `wires` block, from entry i on
LoadWiresLoop(entries, i, wm, nodes) ==
    IF i > Len(entries) THEN wm
    ELSE LET parsedVals == entries[i]
             node1 == findNode(nodes, parsedVals[1])
             node2 == findNode(nodes, parsedVals[2])
         IN  IF isNullOrUndefined(parsedVals[2])
             THEN LoadWiresLoop(entries, i + 1, wm, nodes)
             ELSE IF node1 = NoId \/ node2 = NoId
             THEN LoadWiresLoop(entries, i + 1, wm, nodes)
             ELSE LoadWiresLoop(entries, i + 1,
                                wireMng_addNode(wireMng_addNode(wm, node1), node2), nodes)

\* the `wires` block: the wire manager after it, and whether it threw
LoadWiresField(pcnt, wm, nodes) ==
    IF pcnt.kind # "object" THEN [threw |-> TRUE, wm |-> wm]
    ELSE IF "wires" \notin DOMAIN pcnt.fields THEN [threw |-> FALSE, wm |-> wm]
    ELSE IF pcnt.fields["wires"].kind # "array" THEN [threw |-> TRUE, wm |-> wm]
    ELSE [threw |-> FALSE, wm |-> LoadWiresLoop(pcnt.fields["wires"].items, 1, wm, nodes)]

LoadInit ==
    /\ file \in Contents
    /\ \/ graph = EmptyGraph /\ wireMng = EmptyWireMng /\ liveNodes = {}
       \/ graph = SeedGraph /\ wireMng = [wires |-> SeedWires, pending |-> NoId]
          /\ liveNodes = SeedNodes
    /\ isLoadingState = FALSE
    /\ pc = "idle"
    /\ parsedContents = JNullValue
    /\ result = "none"
    /\ lHist = [graph |-> EmptyGraph, wires |-> <<>>, nodes |-> {}, roundTrip |-> FALSE,
                content |-> [isString |-> TRUE, parses |-> FALSE, value |-> JNullValue]]

\* the start of doLoadFromJson(content): the flag, the parse
LoadBegin(content, roundTrip) ==
    /\ pc = "idle"
    /\ isLoadingState' = TRUE
    /\ lHist' = [graph |-> graph, wires |-> wireMng.wires, nodes |-> liveNodes,
                 roundTrip |-> roundTrip, content |-> content]
    /\ IF content.isString /\ ~content.parses
       THEN pc' = "idle" /\ result' = "false" /\ UNCHANGED parsedContents
       ELSE pc' = "clear" /\ result' = "running" /\ parsedContents' = content.value
    /\ UNCHANGED <<file, graph, wireMng, liveNodes>>
    /\ UNCHANGED <<rndVars, combVars, passVars, saveVars, schedVars>>

\* the user opens the file
LoadFile == LoadBegin(file, FALSE)

\* the workspace is saved and the saved document is loaded back
SaveAndReload ==
    /\ LoadBegin([isString |-> TRUE, parses |-> TRUE,
                  value |-> getJSON_Workspace(graph, wireMng.wires)], TRUE)

\* the clear leaving the wire list and the node registry as they are
LoadClear_arraysOnly ==
    /\ pc = "clear"
    /\ graph' = ClearGraph(graph)
    /\ UNCHANGED <<wireMng, liveNodes>>
    /\ pc' = "in"
    /\ UNCHANGED <<file, isLoadingState, parsedContents, result, lHist>>
    /\ UNCHANGED <<rndVars, combVars, passVars, saveVars, schedVars>>

\* the arrays, the wire list and the node registry are emptied
LoadClear ==
    /\ pc = "clear"
    /\ graph' = ClearGraph(graph)
    /\ wireMng' = [wireMng EXCEPT !.wires = <<>>]
    /\ liveNodes' = {}
    /\ pc' = "in"
    /\ UNCHANGED <<file, isLoadingState, parsedContents, result, lHist>>
    /\ UNCHANGED <<rndVars, combVars, passVars, saveVars, schedVars>>

\* an exception leaves doLoadFromJson; otherwise the next block runs
LoadStep(threw, nxt) ==
    /\ IF threw THEN pc' = "idle" /\ result' = "throw"
                ELSE pc' = nxt /\ UNCHANGED result
    /\ UNCHANGED <<file, isLoadingState, parsedContents, lHist>>
    /\ UNCHANGED <<rndVars, combVars, passVars, saveVars, schedVars>>

LoadComponents(f, nxt) ==
    /\ pc = f
    /\ LET r == LoadArrayField(f, parsedContents, graph, liveNodes)
       IN  graph' = r.graph /\ liveNodes' = r.nodes /\ LoadStep(r.threw, nxt)
    /\ UNCHANGED wireMng

LoadIn == LoadComponents("in", "out")
LoadOut == LoadComponents("out", "displays")
LoadDisplays == LoadComponents("displays", "displaysA")
LoadDisplaysA == LoadComponents("displaysA", "displaysB")
LoadDisplaysB == LoadComponents("displaysB", "clocks")

LoadClocks ==
    /\ pc = "clocks"
    /\ \E onUndefined \in {"throw", "default"} :
         LET r == LoadClocksField(parsedContents, graph, liveNodes, onUndefined)
         IN  graph' = r.graph /\ liveNodes' = r.nodes /\ LoadStep(r.threw, "gates")
    /\ UNCHANGED wireMng

LoadGates == LoadComponents("gates", "wires")

\* the `wires` block, then return true
LoadWires ==
    /\ pc = "wires"
    /\ LET r == LoadWiresField(parsedContents, wireMng, liveNodes)
       IN  /\ wireMng' = r.wm
           /\ IF r.threw THEN pc' = "idle" /\ result' = "throw"
                         ELSE pc' = "idle" /\ result' = "true"
    /\ UNCHANGED <<file, graph, liveNodes, isLoadingState, parsedContents, lHist>>
    /\ UNCHANGED <<rndVars, combVars, passVars, saveVars, schedVars>>

LoadNext ==
    \/ LoadFile \/ SaveAndReload \/ LoadClear
    \/ LoadIn \/ LoadOut \/ LoadDisplays \/ LoadDisplaysA \/ LoadDisplaysB
    \/ LoadClocks \/ LoadGates \/ LoadWires


\* ------------------------------------------------------------------------
\* FileManager.getJSON_Workspace: the replacer at every depth
\* ------------------------------------------------------------------------
\* the largest id of a component object explored
MaxObjId == 2

\* a value that is neither an object nor an array
JAtom(v) == [kind |-> "atom", v |-> v]

\* the objects a live component may hold under a key: a resolved node, a
\* sub-component, a position, a list of links
NodeObject(id) == JObject([k \in {"id", "value"} |-> JAtom(IF k = "id" THEN id ELSE 0)])
NestedValues ==
    { JObject([k \in {"x"} |-> JAtom(3)]),
      JObject([k \in {"x", "endNode"} |-> IF k = "x" THEN JAtom(3) ELSE NodeObject(1)]),
      JArray(<< JObject([k \in {"id", "startNode"} |->
                           IF k = "id" THEN JAtom(4) ELSE NodeObject(2)]) >>) }

\* the component objects explored: an id, and optionally a resolved node
\* under `output`, a sub-latch under `master`, a nested value under `pos`
LiveObjects ==
    { JObject([k \in {"id"} \cup keys |->
                 IF k = "id" THEN JAtom(id)
                 ELSE IF k = "output" THEN NodeObject(id)
                 ELSE IF k = "master" THEN JObject([j \in {"nodeQ", "id"} |-> NodeObject(id)])
                 ELSE pos]) :
        id \in 1..MaxObjId, keys \in SUBSET {"output", "master", "pos"}, pos \in NestedValues }

\* the workspace objects explored: gates only, or gates and a second array
Workspaces ==
    {JObject([f \in {"gates"} |-> JArray(<<c>>)]) : c \in LiveObjects}
    \cup {JObject([f \in {"gates", "in"} |-> JArray(<<c>>)]) : c \in LiveObjects}

\* the replacer applied to the keys of the top object only
Stringify_topOnly(v) ==
    IF v.kind = "object" THEN JObject([k \in (DOMAIN v.fields) \ DenyList |-> v.fields[k]])
    ELSE v

RECURSIVE Stringify(_)
\* stringifySmart(value, {replacer}) followed by JSON.parse: the replacer is
\* called with each key of each object on the way down, and a key for which
\* it returns undefined is left out
Stringify(v) ==
    IF v.kind = "object"
    THEN JObject([k \in (DOMAIN v.fields) \ DenyList |-> Stringify(v.fields[k])])
    ELSE IF v.kind = "array"
    THEN JArray([i \in 1..Len(v.items) |-> Stringify(v.items[i])])
    ELSE v

NotWritten == JAtom("none")

SaveInit == workspace \in Workspaces /\ jsonStr = NotWritten

\* getJSON_Workspace: the workspace is written
SaveWorkspace ==
    /\ jsonStr = NotWritten
    /\ jsonStr' = Stringify(workspace)
    /\ UNCHANGED workspace
    /\ UNCHANGED <<rndVars, combVars, passVars, loadVars, schedVars>>

\* the user edits the circuit after a save
EditWorkspace ==
    /\ jsonStr # NotWritten
    /\ workspace' \in Workspaces
    /\ jsonStr' = NotWritten
    /\ UNCHANGED <<rndVars, combVars, passVars, loadVars, schedVars>>

SaveNext == SaveWorkspace \/ EditWorkspace

\* ------------------------------------------------------------------------
\* Recalculation scheduler: markDirty, settle, the write to a node
\* ------------------------------------------------------------------------
\* the iteration budget of settle()
Budget == 10

\* the circuits explored: an inverter whose output is wired to its input,
\* two NAND gates wired as a latch (nodes 1 and 4 are driven from outside),
\* two inverters in a row (node 1 is driven from outside)
Circuits ==
    [inverter |->
        [gates |-> {[kind |-> "not", ins |-> <<1>>, out |-> 2]},
         wires |-> {<<2, 1>>}, ext |-> {}, nodes |-> 1..2],
     latch |->
        [gates |-> {[kind |-> "nand", ins |-> <<1, 2>>, out |-> 5],
                    [kind |-> "nand", ins |-> <<3, 4>>, out |-> 6]},
         wires |-> {<<6, 2>>, <<5, 3>>}, ext |-> {1, 4}, nodes |-> 1..6],
     chain |->
        [gates |-> {[kind |-> "not", ins |-> <<1>>, out |-> 2],
                    [kind |-> "not", ins |-> <<3>>, out |-> 4]},
         wires |-> {<<2, 3>>}, ext |-> {1}, nodes |-> 1..4]]

InputNodes(c) == UNION {{g.ins[i] : i \in 1..Len(g.ins)} : g \in Circuits[c].gates}
\* the component an input node belongs to
Owner(c, n) == CHOOSE g \in Circuits[c].gates : \E i \in 1..Len(g.ins) : g.ins[i] = n
\* the input nodes wired to an output node
Downstream(c, o) == {w[2] : w \in {x \in Circuits[c].wires : x[1] = o}}

\* the recompute rule of a gate: NOT and NAND with the poisoning rule, NAND
\* being true as soon as one input is false
GateValue(kind, ins) ==
    IF kind = "not"
    THEN (IF ~(ins[1] \in {LTrue, LFalse}) THEN Unknown
          ELSE IF ins[1] = LTrue THEN LFalse ELSE LTrue)
    ELSE IF \E i \in 1..Len(ins) : ins[i] = LFalse THEN LTrue
    ELSE IF \E i \in 1..Len(ins) : ~(ins[i] \in {LTrue, LFalse}) THEN Unknown
    ELSE LFalse

RECURSIVE SetToSeq(_)
\* the nodes of a set in increasing order
SetToSeq(S) ==
    IF S = {} THEN <<>>
    ELSE LET m == CHOOSE x \in S : \A y \in S : x <= y
         IN  <<m>> \o SetToSeq(S \ {m})

\* markDirty(node) for each node of a set: a node already pending stays
\* where it is
markDirty(pend, S) ==
    pend \o SetToSeq({n \in S : ~\E i \in 1..Len(pend) : pend[i] = n})

\* the write that dirties the downstream nodes whatever the value is
NodeWrite_always(c, values, o, v) ==
    [values |-> [n \in DOMAIN values |->
                    IF n = o \/ n \in Downstream(c, o) THEN v ELSE values[n]],
     dirtied |-> Downstream(c, o)]

\* Node.write(v): a value equal to the current one changes nothing; a new
\* value is stored, copied along the outgoing wires, and the nodes at their
\* ends become dirty
NodeWrite(c, values, o, v) ==
    IF v = values[o] THEN [values |-> values, dirtied |-> {}]
    ELSE [values |-> [n \in DOMAIN values |->
                         IF n = o \/ n \in Downstream(c, o) THEN v ELSE values[n]],
          dirtied |-> Downstream(c, o)]

\* settle() with no budget
BudgetExceeded_never(n) == FALSE
\* the test of the iteration budget
BudgetExceeded(n) == n >= Budget

NoStep == [node |-> 0, old |-> Unknown, new |-> Unknown, enq |-> {}]

\* the circuit was just built: the gate outputs are false, the wires copied
\* them, every gate input is dirty and settle() starts
SchedInit ==
    /\ circuit \in DOMAIN Circuits
    /\ \E ev \in [Circuits[circuit].ext -> {LTrue, LFalse}] :
         nodeValue = [n \in Circuits[circuit].nodes |->
                        IF n \in Circuits[circuit].ext THEN ev[n] ELSE LFalse]
    /\ pending = SetToSeq(InputNodes(circuit))
    /\ iterations = 0
    /\ settleStatus = "settling"
    /\ lastStep = NoStep

\* the external driver forces a new value on an input, which starts settle()
Force ==
    /\ settleStatus # "settling"
    /\ \E n \in Circuits[circuit].ext, v \in LogicValue :
         /\ v # nodeValue[n]
         /\ nodeValue' = [nodeValue EXCEPT ![n] = v]
         /\ pending' = markDirty(pending, {n})
    /\ iterations' = 0
    /\ settleStatus' = "settling"
    /\ lastStep' = NoStep
    /\ UNCHANGED circuit
    /\ UNCHANGED <<rndVars, combVars, passVars, loadVars, saveVars>>

\* one iteration of settle(): pop a dirty node, recompute its component,
\* write the output, enqueue the nodes the write dirtied
SettleStep ==
    /\ settleStatus = "settling" /\ pending # <<>> /\ ~BudgetExceeded(iterations)
    /\ LET g == Owner(circuit, Head(pending))
           v == GateValue(g.kind, [i \in 1..Len(g.ins) |-> nodeValue[g.ins[i]]])
           w == NodeWrite(circuit, nodeValue, g.out, v)
           rest == Tail(pending)
       IN  /\ nodeValue' = w.values
           /\ pending' = markDirty(rest, w.dirtied)
           /\ lastStep' = [node |-> g.out, old |-> nodeValue[g.out], new |-> v,
                           enq |-> {n \in w.dirtied : ~\E i \in 1..Len(rest) : rest[i] = n}]
    /\ iterations' = IF iterations <= Budget THEN iterations + 1 ELSE iterations
    /\ UNCHANGED <<circuit, settleStatus>>
    /\ UNCHANGED <<rndVars, combVars, passVars, loadVars, saveVars>>

\* the pending set is empty: settle() returns
SettleDone ==
    /\ settleStatus = "settling" /\ pending = <<>>
    /\ settleStatus' = "settled"
    /\ UNCHANGED <<circuit, nodeValue, pending, iterations, lastStep>>
    /\ UNCHANGED <<rndVars, combVars, passVars, loadVars, saveVars>>

\* the budget is exceeded: settle() reports UnstableCircuitError and keeps
\* the values
SettleUnstable ==
    /\ settleStatus = "settling" /\ pending # <<>> /\ BudgetExceeded(iterations)
    /\ settleStatus' = "unstable"
    /\ UNCHANGED <<circuit, nodeValue, pending, iterations, lastStep>>
    /\ UNCHANGED <<rndVars, combVars, passVars, loadVars, saveVars>>

settle == SettleStep \/ SettleDone \/ SettleUnstable
SchedNext == Force \/ SettleStep \/ SettleDone \/ SettleUnstable

\* ------------------------------------------------------------------------
\* Specifications
\* ------------------------------------------------------------------------
\* the families that a specification leaves alone
RandomIdle ==
    /\ trigger = "rising" /\ prob1 = 50 /\ lastClock = Unknown /\ clockIn = Unknown
    /\ value = LFalse /\ outNode = LFalse
    /\ rndHist = NoCalls(FALSE)
CombIdle ==
    comp = "none" /\ dmx = IdleDemux /\ ha = IdleHalfAdder /\ pt = IdlePassthrough /\ fresh = FALSE
PassIdle == numBits = 1 /\ pwires = {} /\ alive = TRUE /\ pHist = {}
LoadIdle ==
    /\ file = [isString |-> TRUE, parses |-> FALSE, value |-> JNullValue]
    /\ graph = EmptyGraph /\ wireMng = EmptyWireMng /\ liveNodes = {}
    /\ isLoadingState = FALSE /\ pc = "idle" /\ parsedContents = JNullValue
    /\ result = "none"
    /\ lHist = [graph |-> EmptyGraph, wires |-> <<>>, nodes |-> {}, roundTrip |-> FALSE,
                content |-> [isString |-> TRUE, parses |-> FALSE, value |-> JNullValue]]

SaveIdle == workspace = JObject(<<>>) /\ jsonStr = NotWritten
SchedIdle ==
    /\ circuit = "none" /\ nodeValue = <<>> /\ pending = <<>> /\ iterations = 0
    /\ settleStatus = "settled" /\ lastStep = NoStep

InitRandom == RandomInit /\ CombIdle /\ PassIdle /\ LoadIdle /\ SaveIdle /\ SchedIdle
SpecRandom == InitRandom /\ [][RandomNext]_vars

InitComb == CombInit /\ RandomIdle /\ PassIdle /\ LoadIdle /\ SaveIdle /\ SchedIdle
SpecComb == InitComb /\ [][CombNext]_vars

InitPass == PassInit /\ RandomIdle /\ CombIdle /\ LoadIdle /\ SaveIdle /\ SchedIdle
SpecPass == InitPass /\ [][PassNext]_vars

InitLoad == LoadInit /\ RandomIdle /\ CombIdle /\ PassIdle /\ SaveIdle /\ SchedIdle
SpecLoad == InitLoad /\ [][LoadNext]_vars

InitSave == SaveInit /\ RandomIdle /\ CombIdle /\ PassIdle /\ LoadIdle /\ SchedIdle
SpecSave == InitSave /\ [][SaveNext]_vars

\* settle() runs to completion before control returns to the driver
InitSched == SchedInit /\ RandomIdle /\ CombIdle /\ PassIdle /\ LoadIdle /\ SaveIdle
SpecSched == InitSched /\ [][SchedNext]_vars /\ WF_vars(settle)

\* ------------------------------------------------------------------------
\* Properties
\* ------------------------------------------------------------------------
Defined(v) == v \in {LTrue, LFalse}

\* a change between two defined values in the configured direction
QualifyingEdge(trig, before, after) ==
    /\ Defined(before) /\ Defined(after) /\ before # after
    /\ (trig = "rising") <=> (after = LTrue)

\* C1: a recompute of the random input draws a new value if and only if the
\* clock input went, between the previous recompute and this one, through
\* the configured edge between two defined values (rising: false -> true,
\* falling: true -> false); Unknown -> true and true -> false do not fire
\* a rising-edge component.
C1_FiresExactlyOnEdge ==
    rndHist.calls > 0 =>
        /\ rndHist.drew <=> QualifyingEdge(trigger, rndHist.prevIn, rndHist.curIn)
        /\ lastClock = rndHist.curIn
        /\ (trigger = "rising" /\ rndHist.prevIn = Unknown /\ rndHist.curIn = LTrue)
              => ~rndHist.drew
        /\ (trigger = "rising" /\ rndHist.prevIn = LTrue /\ rndHist.curIn = LFalse)
              => ~rndHist.drew

C1_Witness ==
    /\ rndHist.calls = 2 /\ rndHist.drew
    /\ trigger = "rising" /\ rndHist.prevIn = LFalse /\ rndHist.curIn = LTrue

\* C2: a recompute of the random input that sees no qualifying edge (the
\* clock unchanged, or changed to or from Unknown or HighImpedance, or the
\* opposite edge) leaves the output node with the value it had before.
C2_NonEdgeKeepsOutput ==
    (rndHist.calls > 0 /\ ~QualifyingEdge(trigger, rndHist.prevIn, rndHist.curIn)) =>
        /\ outNode = rndHist.outBefore
        /\ value = rndHist.outBefore

C2_Witness ==
    /\ rndHist.calls = 2 /\ ~rndHist.drew
    /\ rndHist.prevIn = LTrue /\ rndHist.curIn = HighImpedance
    /\ outNode = LTrue /\ rndHist.outBefore = LTrue

\* C3: after a recompute of a Demux with an Unknown selector bit, every one
\* of its numTo outputs is Unknown, whatever the data inputs and the
\* disconnectedAsHighZ flag are.
C3_UnknownSelectorPoisonsAll ==
    (comp = "demux" /\ fresh /\ \E k \in 1..dmx.numSel : dmx.S[k] = Unknown) =>
        /\ Len(dmx.out) = dmx.numTo
        /\ \A k \in 1..dmx.numTo : dmx.out[k] = Unknown

C3_Witness ==
    /\ comp = "demux" /\ fresh /\ dmx.numTo = 4 /\ dmx.numFrom = 1
    /\ dmx.S = <<LTrue, Unknown>> /\ dmx.I = <<LTrue>> /\ dmx.disconnectedAsHighZ
    /\ dmx.out = <<Unknown, Unknown, Unknown, Unknown>>

\* the number a vector of defined bits stands for, least significant first
SelectorNumber(S) ==
    CHOOSE n \in 0..(2 ^ Len(S) - 1) :
        \A k \in 1..Len(S) : (S[k] = LTrue) <=> ((n \div (2 ^ (k - 1))) % 2 = 1)

\* C4: after a recompute of a Demux whose selector bits are all defined
\* with value s, output group s holds the data inputs bit for bit and every
\* other group holds false on every output, or HighImpedance on every
\* output when disconnectedAsHighZ is set; the 1-to-4 Demux with selector 2
\* and input true yields [false, false, true, false].
C4_SelectedGroupGetsInputs ==
    (comp = "demux" /\ fresh /\ \A k \in 1..dmx.numSel : Defined(dmx.S[k])) =>
        LET s == SelectorNumber(dmx.S)
            off == IF dmx.disconnectedAsHighZ THEN HighImpedance ELSE LFalse
        IN  /\ Len(dmx.out) = dmx.numTo
            /\ \A g \in 0..(dmx.numGroups - 1) : \A i \in 1..dmx.numFrom :
                  dmx.out[g * dmx.numFrom + i] = IF g = s THEN dmx.I[i] ELSE off
            /\ (dmx.numFrom = 1 /\ dmx.numTo = 4 /\ s = 2 /\ dmx.I = <<LTrue>>
                  /\ ~dmx.disconnectedAsHighZ)
                 => dmx.out = <<LFalse, LFalse, LTrue, LFalse>>

C4_Witness ==
    /\ comp = "demux" /\ fresh /\ dmx.numFrom = 2 /\ dmx.numTo = 8
    /\ dmx.S = <<LFalse, LTrue>> /\ dmx.I = <<HighImpedance, LTrue>>
    /\ dmx.disconnectedAsHighZ
    /\ dmx.out = <<HighImpedance, HighImpedance, HighImpedance, HighImpedance,
                   HighImpedance, LTrue, HighImpedance, HighImpedance>>

\* C5: after a recompute of the half-adder, the outputs are (Unknown,
\* Unknown) when an input is Unknown or HighImpedance, and otherwise
\* (sum, carry) = (a XOR b, a AND b).
C5_HalfAdderTable ==
    (comp = "halfadder" /\ fresh) =>
        IF Defined(ha.a) /\ Defined(ha.b)
        THEN /\ ha.out[1] = (IF ha.a # ha.b THEN LTrue ELSE LFalse)
             /\ ha.out[2] = (IF ha.a = LTrue /\ ha.b = LTrue THEN LTrue ELSE LFalse)
        ELSE ha.out = <<Unknown, Unknown>>

C5_Witness ==
    /\ comp = "halfadder" /\ fresh /\ ha.a = LTrue /\ ha.b = LTrue
    /\ ha.out = <<LFalse, LTrue>>

\* C6: after destroy of a passthrough, for every bit whose input had an
\* incoming wire from a node X and whose output had wires to nodes D1..Dk,
\* there is a wire from X to each Dj with the style of the former wire from
\* the output to Dj, and it is the only wire that ends in Dj.
C6_DestroySplices ==
    ~alive =>
        \A i \in 1..numBits : \A win \in pHist : \A wout \in pHist :
            (win.endNode = NodeI(i) /\ wout.startNode = NodeO(i)) =>
                \E w \in pwires :
                    /\ w.startNode = win.startNode
                    /\ w.endNode = wout.endNode
                    /\ w.style = wout.style
                    /\ \A w2 \in pwires : w2.endNode = w.endNode => w2 = w

C6_Witness ==
    /\ ~alive /\ numBits = 2
    /\ [startNode |-> <<"X", 1>>, endNode |-> NodeI(2), style |-> Undef] \in pHist
    /\ [startNode |-> NodeO(2), endNode |-> <<"D", 1>>, style |-> "straight"] \in pHist
    /\ [startNode |-> NodeO(2), endNode |-> <<"D", 2>>, style |-> Undef] \in pHist
    /\ pwires = { [startNode |-> <<"X", 1>>, endNode |-> <<"D", 1>>, style |-> "straight"],
                  [startNode |-> <<"X", 1>>, endNode |-> <<"D", 2>>, style |-> Undef] }


\* the graph is the one the running / last load started from
GraphAsBefore ==
    /\ graph = lHist.graph
    /\ wireMng.wires = lHist.wires
    /\ liveNodes = lHist.nodes

LoadEnded == pc = "idle" /\ result \in {"true", "false", "throw"}

\* C7: loading the document that getJSON_Workspace produces from the live
\* graph succeeds and rebuilds the same component arrays (kinds, parameters)
\* and the same wires.
C7_RoundTrip ==
    (LoadEnded /\ lHist.roundTrip) => (result = "true" /\ GraphAsBefore)

\* the round trip of a graph that holds no clock
C7_RoundTripWithoutClocks ==
    (LoadEnded /\ lHist.roundTrip /\ lHist.graph["clocks"] = <<>>) =>
        (result = "true" /\ GraphAsBefore)

\* C8: a load that fails on a malformed document returns false and leaves
\* the component arrays, the wire list and the node registry as they were.
C8_FailedLoadKeepsGraph ==
    (LoadEnded /\ result # "true" /\ Malformed(lHist.content)) =>
        (result = "false" /\ GraphAsBefore)

\* the blocks of doLoadFromJson after the clear, in order
Phases == AllComponents \o <<"wires">>
PhaseOf(p) == CHOOSE k \in 1..Len(Phases) : Phases[k] = p
\* the number of descriptors the document holds in a field
DocLen(f) ==
    IF parsedContents.kind = "object" /\ f \in DOMAIN parsedContents.fields
    THEN Len(parsedContents.fields[f].items) ELSE 0

\* C9: nothing is created before the clear; after the clear, when the block
\* of a field is about to run, the arrays of that field and of all later
\* ones are empty, the arrays of the earlier ones hold as many components
\* as the document has descriptors, no wire exists, and the registry holds
\* only nodes of rebuilt components; wires exist only once every array has
\* its components.
C9_ClearThenFixedOrder ==
    /\ pc = "clear" => GraphAsBefore
    /\ pc \in {Phases[k] : k \in 1..Len(Phases)} =>
        /\ \A j \in 1..Len(AllComponents) :
              IF j >= PhaseOf(pc)
              THEN graph[AllComponents[j]] = <<>>
              ELSE Len(graph[AllComponents[j]]) = DocLen(AllComponents[j])
        /\ wireMng.wires = <<>>
        /\ liveNodes = UNION {{graph[f][i].id : i \in 1..Len(graph[f])} : f \in CompFields}
    /\ (pc = "idle" /\ result = "true") =>
          \A f \in CompFields : Len(graph[f]) = DocLen(f)

C9_Witness ==
    /\ pc = "wires" /\ lHist.graph = SeedGraph
    /\ DocLen("in") = 1 /\ DocLen("gates") = 1 /\ DocLen("wires") = 2
    /\ Len(graph["in"]) = 1 /\ Len(graph["gates"]) = 1

\* entry i of the wires field names two nodes that findNode finds
Resolvable(entries, i, nodes) == entries[i][1] \in nodes /\ entries[i][2] \in nodes
\* ... and its wire is a legal one: not from a node to itself, and no
\* earlier entry already gave its end node an incoming wire
Connectable(entries, i, nodes) ==
    /\ Resolvable(entries, i, nodes)
    /\ entries[i][1] # entries[i][2]
    /\ ~\E j \in 1..(i - 1) :
           /\ Resolvable(entries, j, nodes)
           /\ entries[j][1] # entries[j][2]
           /\ entries[j][2] = entries[i][2]

\* C10: when the wires block runs on an array of entries, the load returns
\* true, every entry that names two rebuilt nodes (and is a legal wire) has
\* its wire, and every wire comes from such an entry: an entry with a
\* missing second id or an id that is not found adds nothing and stops
\* nothing.
C10_BadWireEntriesSkipped ==
    [][ (pc = "wires" /\ parsedContents.kind = "object"
            /\ "wires" \in DOMAIN parsedContents.fields
            /\ parsedContents.fields["wires"].kind = "array") =>
          LET entries == parsedContents.fields["wires"].items
              wires == wireMng'.wires
          IN  /\ pc' = "idle" /\ result' = "true"
              /\ \A i \in 1..Len(entries) : Connectable(entries, i, liveNodes) =>
                    \E k \in 1..Len(wires) :
                        wires[k] = [startNode |-> entries[i][1], endNode |-> entries[i][2]]
              /\ \A k \in 1..Len(wires) : \E i \in 1..Len(entries) :
                    /\ Resolvable(entries, i, liveNodes)
                    /\ wires[k] = [startNode |-> entries[i][1], endNode |-> entries[i][2]]
      ]_vars

C10_Witness ==
    /\ pc = "idle" /\ result = "true"
    /\ parsedContents.kind = "object" /\ "wires" \in DOMAIN parsedContents.fields
    /\ parsedContents.fields["wires"] = JArray(<< <<1, NoId>>, <<1, 2>> >>)
    /\ liveNodes = {1, 2}
    /\ wireMng.wires = << [startNode |-> 1, endNode |-> 2] >>

\* C11: the recompute call that follows a firing one never fires and leaves
\* the output node as it was, whatever the clock input is at that call; a
\* call fires exactly when it sees the configured edge (idle -> fired).
C11_NoConsecutiveFirings ==
    /\ rndHist.prevDrew => (~rndHist.drew /\ outNode = rndHist.outBefore)
    /\ rndHist.calls > 0 =>
          (rndHist.drew <=> QualifyingEdge(trigger, rndHist.prevIn, rndHist.curIn))

\* a firing call followed by a call made after the clock input changed
C11_Witness ==
    /\ rndHist.prevDrew /\ ~rndHist.drew
    /\ rndHist.curIn # rndHist.prevIn

\* ceil(a / b) and ceil(log2(n)) for positive integers
CeilDiv(a, b) == (a + b - 1) \div b
CeilLog2(n) == CHOOSE k \in 0..n : 2 ^ k >= n /\ (k = 0 \/ 2 ^ (k - 1) < n)

\* C12: a live Demux of any variant has ceil(numTo / numFrom) groups and
\* ceil(log2(groups)) selector inputs, its data and selector inputs are the
\* numFrom + numSel declared inputs, its outputs the numTo declared outputs,
\* and every value of the selector bus is the index of a group.
C12_VariantArithmetic ==
    comp = "demux" =>
        /\ dmx.numGroups = CeilDiv(dmx.numTo, dmx.numFrom)
        /\ dmx.numSel = CeilLog2(dmx.numGroups)
        /\ Len(dmx.I) = dmx.numFrom /\ Len(dmx.S) = dmx.numSel
        /\ dmx.numInputs = Len(dmx.I) + Len(dmx.S)
        /\ dmx.numOutputs = dmx.numTo /\ Len(dmx.out) = dmx.numTo
        /\ \A sel \in 0..(2 ^ dmx.numSel - 1) :
              sel < dmx.numGroups /\ (sel + 1) * dmx.numFrom <= Len(dmx.out)

\* every variant, the widest one included, has been built and recomputed
C12_Witness ==
    /\ comp = "demux" /\ fresh
    /\ dmx.numFrom = 8 /\ dmx.numTo = 16 /\ dmx.numGroups = 2
    /\ dmx.out[9] = LTrue

\* C13: after a recompute of a passthrough of any width, output O[i] holds
\* the value of input I[i] for every bit i, Unknown and HighImpedance
\* included, whatever the other bits are.
C13_PassthroughIdentity ==
    (comp = "passthrough" /\ fresh) =>
        /\ Len(pt.O) = pt.numBits /\ Len(pt.I) = pt.numBits
        /\ \A i \in 1..pt.numBits : pt.O[i] = pt.I[i]

\* a recomputed passthrough whose bits differ, one of them Unknown, another
\* HighImpedance
C13_Witness ==
    /\ comp = "passthrough" /\ fresh /\ pt.numBits = 2
    /\ pt.I = <<Unknown, HighImpedance>> /\ pt.O = <<Unknown, HighImpedance>>

\* C14: the document written by getJSON_Workspace has a field in, out,
\* displays, displaysA, displaysB, clocks, gates or wires exactly when the
\* live array of that name is not empty, and no other field; the document of
\* an empty graph has no field.
C14_EmptyFieldsOmitted ==
    lHist.roundTrip =>
        /\ parsedContents.kind = "object"
        /\ DOMAIN parsedContents.fields \subseteq CompFields \cup {"wires"}
        /\ \A f \in CompFields :
              f \in DOMAIN parsedContents.fields <=> Len(lHist.graph[f]) > 0
        /\ "wires" \in DOMAIN parsedContents.fields <=> Len(lHist.wires) > 0
        /\ (lHist.graph = EmptyGraph /\ lHist.wires = <<>>) =>
              DOMAIN parsedContents.fields = {}

\* the document of a graph with inputs, outputs, clocks and wires and no
\* display or gate
C14_Witness ==
    /\ lHist.roundTrip /\ lHist.graph = SeedGraph /\ lHist.wires = SeedWires
    /\ DOMAIN parsedContents.fields = {"in", "out", "clocks", "wires"}

RECURSIVE HasDeniedKey(_)
\* some object inside v, at any depth, has a key of the deny-list
HasDeniedKey(v) ==
    IF v.kind = "object"
    THEN \/ DOMAIN v.fields \cap DenyList # {}
         \/ \E k \in DOMAIN v.fields : HasDeniedKey(v.fields[k])
    ELSE IF v.kind = "array"
    THEN \E i \in 1..Len(v.items) : HasDeniedKey(v.items[i])
    ELSE FALSE

RECURSIVE KeptOtherKeys(_, _)
\* w is v with the keys of the deny-list left out and nothing else changed
KeptOtherKeys(v, w) ==
    IF v.kind = "object"
    THEN /\ w.kind = "object"
         /\ DOMAIN w.fields = (DOMAIN v.fields) \ DenyList
         /\ \A k \in DOMAIN w.fields : KeptOtherKeys(v.fields[k], w.fields[k])
    ELSE IF v.kind = "array"
    THEN /\ w.kind = "array" /\ Len(w.items) = Len(v.items)
         /\ \A i \in 1..Len(v.items) : KeptOtherKeys(v.items[i], w.items[i])
    ELSE w = v

\* C15: the written document holds no key of the deny-list at any depth,
\* and every other key keeps its value.
C15_DenyListElided ==
    jsonStr # NotWritten =>
        /\ ~HasDeniedKey(jsonStr)
        /\ KeptOtherKeys(workspace, jsonStr)

\* a written workspace whose gate held a node under `output` and a link
\* under a key of a nested object
C15_Witness ==
    /\ jsonStr # NotWritten
    /\ "output" \in DOMAIN workspace.fields["gates"].items[1].fields
    /\ "pos" \in DOMAIN workspace.fields["gates"].items[1].fields
    /\ "endNode" \in DOMAIN workspace.fields["gates"].items[1].fields["pos"].fields
    /\ DOMAIN jsonStr.fields["gates"].items[1].fields["pos"].fields = {"x"}

\* C16: settle() always ends, with the pending set empty, or with the
\* budget used up, UnstableCircuitError reported and the node values as the
\* last iteration left them; the inverter wired to itself always ends
\* unstable; the NAND latch with inputs (false, true) always settles, with
\* Q true and notQ false.
C16_SettleTerminates ==
    /\ (settleStatus = "settling") ~> (settleStatus \in {"settled", "unstable"})
    /\ [](iterations <= Budget)
    /\ [](settleStatus = "settled" => pending = <<>>)
    /\ [](settleStatus = "unstable" => (pending # <<>> /\ iterations = Budget))
    /\ [][(settleStatus = "settling" /\ settleStatus' = "unstable") =>
             nodeValue' = nodeValue]_vars
    /\ []((circuit = "inverter" /\ settleStatus # "settling") => settleStatus = "unstable")
    /\ []((circuit = "latch" /\ settleStatus # "settling"
            /\ nodeValue[1] = LFalse /\ nodeValue[4] = LTrue) =>
             (settleStatus = "settled" /\ nodeValue[5] = LTrue /\ nodeValue[6] = LFalse))

\* the latch has settled on a pair (Q, notQ) of opposite values
C16_Witness ==
    /\ circuit = "latch" /\ settleStatus = "settled" /\ iterations > 0
    /\ nodeValue[1] = LFalse /\ nodeValue[4] = LTrue
    /\ nodeValue[5] = LTrue /\ nodeValue[6] = LFalse

\* C17: an iteration of settle() whose write gives an output node the value
\* it already has changes no node value and adds no node to the pending
\* set, so no downstream component is recomputed because of it.
C17_SameValueWriteIsNoOp ==
    [][ (iterations' = iterations + 1 /\ lastStep'.new = nodeValue[lastStep'.node]) =>
           (nodeValue' = nodeValue /\ pending' = Tail(pending) /\ lastStep'.enq = {})
      ]_vars

\* an iteration wrote an unchanged value to an output node with a wire, and
\* the node at the end of the wire is not pending
C17_Witness ==
    /\ lastStep.node # 0 /\ lastStep.old = lastStep.new
    /\ Downstream(circuit, lastStep.node) # {}
    /\ \A d \in Downstream(circuit, lastStep.node) :
          ~\E i \in 1..Len(pending) : pending[i] = d

\* C18: a load of a well-formed document with a `clocks` array of n
\* descriptors returns true and leaves n clocks, the i-th built from the
\* i-th descriptor of `clocks`, with or without a `displaysB` field.
C18_ClocksBuiltFromClocks ==
    (/\ LoadEnded /\ result # "false"
     /\ ~Malformed(lHist.content)
     /\ "clocks" \in DOMAIN parsedContents.fields) =>
        /\ result = "true"
        /\ graph["clocks"] =
              [i \in 1..DocLen("clocks") |->
                  NewComponent("clocks", parsedContents.fields["clocks"].items[i])]

\* the same for the documents whose `clocks` array is empty
C18_EmptyClocksArray ==
    (/\ LoadEnded /\ result # "false"
     /\ ~Malformed(lHist.content)
     /\ "clocks" \in DOMAIN parsedContents.fields
     /\ DocLen("clocks") = 0) =>
        (result = "true" /\ graph["clocks"] = <<>>)

\* the descriptors the document holds in a field
DocItems(f) ==
    IF parsedContents.kind = "object" /\ f \in DOMAIN parsedContents.fields
    THEN parsedContents.fields[f].items ELSE <<>>

\* C19: after a load that returned true, each array holds the components
\* the load built from the document and nothing else (an array whose field
\* the document lacks is empty), the registry holds the nodes of these
\* components only, and every wire is one the wires block made from an
\* entry of the document: nothing that was there before the call is left.
C19_NothingSurvivesLoad ==
    (LoadEnded /\ result = "true") =>
        /\ \A f \in CompFields \ {"clocks"} :
              graph[f] = [i \in 1..DocLen(f) |-> NewComponent(f, DocItems(f)[i])]
        /\ Len(graph["clocks"]) = DocLen("clocks")
        /\ \A i \in 1..Len(graph["clocks"]) :
              \/ graph["clocks"][i] = DefaultClock(i)
              \/ /\ i <= DocLen("displaysB")
                 /\ graph["clocks"][i] = NewComponent("clocks", DocItems("displaysB")[i])
        /\ liveNodes = UNION {{graph[f][i].id : i \in 1..Len(graph[f])} : f \in CompFields}
        /\ \A k \in 1..Len(wireMng.wires) : \E i \in 1..DocLen("wires") :
              /\ Resolvable(DocItems("wires"), i, liveNodes)
              /\ wireMng.wires[k] = [startNode |-> DocItems("wires")[i][1],
                                     endNode |-> DocItems("wires")[i][2]]

\* a load into the hand-built graph of a document without `in`, `out`,
\* `clocks` and `wires` fields has returned true
C19_Witness ==
    /\ LoadEnded /\ result = "true" /\ lHist.graph = SeedGraph
    /\ DOMAIN parsedContents.fields = {"gates"}
    /\ graph["in"] = <<>> /\ graph["out"] = <<>> /\ graph["clocks"] = <<>>
    /\ Len(graph["gates"]) = 1
    /\ wireMng.wires = <<>> /\ liveNodes \cap SeedNodes = {}

\* the wires destroy added back: those that were not simply left in place
ReCreated == pwires \ superDestroy(pHist, numBits)

\* the list kept by wireMgr obeys the wiring invariant and is free of the
\* nodes of the passthrough, and every wire added back joins the source of
\* some bit to a former destination of that same bit
SplicedCleanly ==
    /\ \A w1 \in pwires : \A w2 \in pwires : w1.endNode = w2.endNode => w1 = w2
    /\ \A w \in pwires :
          w.startNode \notin OwnNodes(numBits) /\ w.endNode \notin OwnNodes(numBits)
    /\ \A w \in ReCreated :
          \E i \in 1..numBits : \E win \in pHist : \E wout \in pHist :
              /\ win.endNode = NodeI(i) /\ win.startNode = w.startNode
              /\ wout.startNode = NodeO(i) /\ wout.endNode = w.endNode

\* a wire ran from an output of the passthrough to one of its own inputs
WiredToItself ==
    \E w \in pHist : w.startNode \in OwnNodes(numBits) /\ w.endNode \in OwnNodes(numBits)

\* C20: after destroy of a passthrough, every input node has at most one
\* incoming wire, no wire starts or ends in a node of the destroyed
\* passthrough, and each wire added back joins the source of a bit i to a
\* former destination of the same bit i.
C20_DestroyKeepsWiringInvariant == ~alive => SplicedCleanly

\* C20, restricted: the same when no output of the passthrough was wired to
\* one of its own inputs
C20_CleanWhenNotWiredToItself == (~alive /\ ~WiredToItself) => SplicedCleanly

\* a removal that added wires back for both bits, each to its own side
C20_CleanWitness ==
    /\ ~alive /\ ~WiredToItself /\ numBits = 2
    /\ pwires = { [startNode |-> <<"X", 1>>, endNode |-> <<"D", 2>>, style |-> Undef],
                  [startNode |-> <<"X", 2>>, endNode |-> <<"D", 1>>, style |-> Undef] }
    /\ [startNode |-> <<"X", 1>>, endNode |-> NodeI(1), style |-> Undef] \in pHist
    /\ [startNode |-> NodeO(1), endNode |-> <<"D", 2>>, style |-> Undef] \in pHist

\* the removal of a passthrough whose output 1 fed its own input 2 leaves a
\* wire that ends in the destroyed input 2
C20_DanglingWire ==
    ~(/\ ~alive /\ numBits = 2
      /\ pHist = { [startNode |-> <<"X", 1>>, endNode |-> NodeI(1), style |-> Undef],
                   [startNode |-> NodeO(1), endNode |-> NodeI(2), style |-> Undef] }
      /\ pwires = { [startNode |-> <<"X", 1>>, endNode |-> NodeI(2), style |-> Undef] })

\* C21: the vector a Demux recompute returns has exactly numTo values, for
\* an unknown selector and for every defined one; numTo is the number of
\* output nodes, so propagateValue writes each output index 0..numTo-1
\* exactly once and no other index, and the outputs are the returned vector.
C21_RecalcReturnsNumToValues ==
    comp = "demux" =>
        LET newValues == Demux_doRecalcValue(dmx)
            written == WrittenIndices(newValues)
        IN  /\ DOMAIN newValues = 1..dmx.numTo
            /\ dmx.numTo = dmx.numOutputs
            /\ Len(dmx.out) = dmx.numOutputs
            /\ \A i \in 1..Len(written) : written[i] \in 0..(dmx.numTo - 1)
            /\ \A o \in 0..(dmx.numTo - 1) :
                  Cardinality({i \in 1..Len(written) : written[i] = o}) = 1
            /\ fresh => dmx.out = newValues

\* the 8-to-16 variant recomputed with selector 1: sixteen outputs written
C21_Witness ==
    /\ comp = "demux" /\ fresh /\ dmx.numFrom = 8 /\ dmx.S = <<LTrue>>
    /\ dmx.I[1] = LTrue /\ ~dmx.disconnectedAsHighZ
    /\ Len(dmx.out) = 16 /\ dmx.out[8] = LFalse /\ dmx.out[9] = LTrue

\* the components with the inputs and the flag of d whose earlier recomputes
\* left other outputs
OtherHistories(d) == {[d EXCEPT !.out = FixedArrayFill(v, d.numTo)] : v \in LogicValue}

\* C22: Demux, half adder and passthrough carry no temporal state. The
\* result of a Demux recompute is the same for any two components with the
\* same inputs and flag; a recompute of any of the three changes nothing but
\* the outputs, and leaves the outputs a newly built component with the same
\* inputs (and flag) would get, whatever was computed before.
C22_NoTemporalState ==
    /\ [](comp = "demux" =>
            \A e \in OtherHistories(dmx) : Demux_doRecalcValue(e) = Demux_doRecalcValue(dmx))
    /\ [][(fresh' /\ comp = "demux") =>
            dmx' = [dmx EXCEPT !.out = Demux_doRecalcValue(
                        NewDemux(dmx, dmx.I, dmx.S, dmx.disconnectedAsHighZ))]]_vars
    /\ [][(fresh' /\ comp = "halfadder") =>
            ha' = [ha EXCEPT !.out = HalfAdder_doRecalcValue(ha.a, ha.b)]]_vars
    /\ [][(fresh' /\ comp = "passthrough") =>
            pt' = [pt EXCEPT !.O = Passthrough_doRecalcValue(NewPassthrough(pt.numBits, pt.I).I)]]_vars

\* a 1-to-2 Demux recomputed with an unknown selector after an earlier
\* recompute had routed a true input to output 0
C22_Witness ==
    /\ comp = "demux" /\ dmx.numTo = 2 /\ ~fresh
    /\ dmx.I = <<LTrue>> /\ dmx.S = <<Unknown>>
    /\ dmx.out = <<LTrue, LFalse>>

\* C23: the first recompute of a random input after its construction, from
\* null or from a saved record, draws no value and leaves the output false,
\* whatever the clock input and the configured edge are: _lastClock starts
\* as Unknown and is not among the fields toJSON writes. After every
\* recompute, firing or not, _lastClock is the clock input that call read.
C23_FirstRecalcNeverFires ==
    /\ rndHist.calls = 0 => lastClock = Unknown
    /\ rndHist.calls = 1 => (~rndHist.drew /\ value = LFalse /\ outNode = LFalse)
    /\ rndHist.calls > 0 => lastClock = rndHist.curIn
    /\ "lastClock" \notin DOMAIN InputRandom_toJSON(prob1, trigger)

\* a component loaded from a record, with a falling trigger, whose first
\* recompute read false on the clock input
C23_Witness ==
    /\ rndHist.loaded /\ rndHist.calls = 1 /\ trigger = "falling"
    /\ rndHist.curIn = LFalse /\ lastClock = LFalse /\ ~rndHist.drew
    /\ prob1 = 100 /\ outNode = LFalse

C24_FlagStaysSet ==
    isLoadingState <=> (pc # "idle" \/ result # "none")

\* a load of a text that does not parse has returned false
C24_ReturnedFalse == ~(LoadEnded /\ result = "false" /\ isLoadingState)

====
